---------------------------- MODULE Spec2Model ----------------------------
(***************************************************************************)
(* A model of src/src/index.ts: the fping() wrapper around the external    *)
(* fping tool.                                                             *)
(*                                                                         *)
(* Text is modelled at the character level: a string is a sequence of      *)
(* one-character strings, so that split(), trim() and parseFloat() do what *)
(* the JavaScript does.  A latency is an exact decimal, held as an integer  *)
(* number of 10^-Prec milliseconds.  toFixed() is modelled on exact         *)
(* decimals (round half away from zero); the binary representation error   *)
(* of a double at an exact tie is not modelled.  Result.stddev is not       *)
(* modelled (a square root of a 64-bit float).                              *)
(***************************************************************************)
EXTENDS Integers, Sequences, FiniteSets, TLC

\* ------------------------------------------------------------- bounds

\* Fractional decimal digits a latency token carries in the model.
Prec == 1

\* Longest enumerated list of sample tokens on a line.
MaxTokens == 3

\* Length of the longest of the long lines (all answered / one lost / ...).
LongSent == 201

RECURSIVE Pow10(_)
Pow10(n) == IF n <= 0 THEN 1 ELSE 10 * Pow10(n - 1)

Scale == Pow10(Prec)

\* ------------------------------------------------------------- strings

Whitespace == {" ", "\t", "\r", "\n"}

DigitChars == <<"0", "1", "2", "3", "4", "5", "6", "7", "8", "9">>

IsDigit(c) == \E i \in 1..10 : DigitChars[i] = c

DigitVal(c) == (CHOOSE i \in 1..10 : DigitChars[i] = c) - 1

\* A function on 1..n as the array of its values.
array(f) == SubSeq(f, 1, Len(f))

\* String.prototype.includes for a single character.
includes(s, c) == \E i \in 1..Len(s) : s[i] = c

\* The pieces of s[lo..hi] between the occurrences of sep, computed by halves
\* (pieces(a \o b) joins the last piece of a to the first piece of b).
RECURSIVE splitRange(_, _, _, _)
splitRange(s, sep, lo, hi) ==
    IF lo > hi THEN <<<<>>>>
    ELSE IF lo = hi THEN (IF s[lo] = sep THEN <<<<>>, <<>>>> ELSE <<<<s[lo]>>>>)
    ELSE LET mid == (lo + hi) \div 2
             a == splitRange(s, sep, lo, mid)
             b == splitRange(s, sep, mid + 1, hi)
         IN SubSeq(a, 1, Len(a) - 1) \o <<a[Len(a)] \o b[1]>> \o Tail(b)

\* String.prototype.split with a one-character separator: always at least
\* one piece, "" splits to [""].
split(s, sep) == splitRange(s, sep, 1, Len(s))

\* String.prototype.trim.
trim(s) ==
    LET keep == {i \in 1..Len(s) : s[i] \notin Whitespace}
    IN IF keep = {}
       THEN <<>>
       ELSE LET lo == CHOOSE i \in keep : \A j \in keep : i <= j
                hi == CHOOSE i \in keep : \A j \in keep : j <= i
            IN SubSeq(s, lo, hi)

\* parts[lo..hi] joined with sep between them, computed by halves.
RECURSIVE joinRange(_, _, _, _)
joinRange(parts, sep, lo, hi) ==
    IF lo > hi THEN <<>>
    ELSE IF lo = hi THEN parts[lo]
    ELSE LET mid == (lo + hi) \div 2
         IN joinRange(parts, sep, lo, mid) \o sep \o joinRange(parts, sep, mid + 1, hi)

\* Array.prototype.join.
join(parts, sep) == joinRange(parts, sep, 1, Len(parts))

\* Array.prototype.filter, keeping the non-empty strings.
RECURSIVE filterNonEmpty(_)
filterNonEmpty(ss) ==
    IF ss = <<>> THEN <<>>
    ELSE IF Len(Head(ss)) # 0
         THEN <<Head(ss)>> \o filterNonEmpty(Tail(ss))
         ELSE filterNonEmpty(Tail(ss))

\* ------------------------------------------------------------- numbers

NaN == [nan |-> TRUE, val |-> 0]

Number(v) == [nan |-> FALSE, val |-> v]

\* Length of the longest prefix of s, from position i, made of digits.
RECURSIVE digitRun(_, _)
digitRun(s, i) ==
    IF i <= Len(s) /\ IsDigit(s[i]) THEN 1 + digitRun(s, i + 1) ELSE 0

\* The integer a run of digits s[i..i+n-1] denotes.
RECURSIVE digitsValue(_, _, _)
digitsValue(s, i, n) ==
    IF n = 0 THEN 0
    ELSE 10 * digitsValue(s, i, n - 1) + DigitVal(s[i + n - 1])

\* The first Prec fractional digits s[i..i+n-1] as a number of 10^-Prec.
fractionValue(s, i, n) ==
    IF n >= Prec
    THEN digitsValue(s, i, Prec)
    ELSE digitsValue(s, i, n) * Pow10(Prec - n)

\* parseFloat: leading white space is skipped, then the longest prefix that
\* is a decimal literal is read ([+-] digits [. digits]); NaN when there is
\* none.  The result is in units of 10^-Prec.  (Exponents and "Infinity" are
\* outside the alphabet of the modelled tool.)
parseFloat(str) ==
    LET body == {i \in 1..Len(str) : str[i] \notin Whitespace}
        start == IF body = {} THEN Len(str) + 1
                 ELSE CHOOSE i \in body : \A j \in body : i <= j
        signed == start <= Len(str) /\ str[start] \in {"+", "-"}
        neg == signed /\ str[start] = "-"
        p == IF signed THEN start + 1 ELSE start
        nInt == digitRun(str, p)
        dot == p + nInt <= Len(str) /\ str[p + nInt] = "."
        nFrac == IF dot THEN digitRun(str, p + nInt + 1) ELSE 0
        mag == digitsValue(str, p, nInt) * Scale
               + fractionValue(str, p + nInt + 1, nFrac)
    IN IF nInt + nFrac = 0 THEN NaN
       ELSE Number(IF neg THEN 0 - mag ELSE mag)

\* a || b on a number a: NaN and (+/-)0 are falsy.
orElse(a, b) == IF a.nan \/ a.val = 0 THEN b ELSE a.val

\* num / den rounded to the nearest integer, halves away from zero (den > 0).
roundDiv(num, den) ==
    IF num >= 0
    THEN (2 * num + den) \div (2 * den)
    ELSE 0 - ((2 * (0 - num) + den) \div (2 * den))

\* toFixed that cuts the digits off instead of rounding.
toFixedTruncates(num, den, digits) ==
    IF num >= 0
    THEN (num * Pow10(digits)) \div den
    ELSE 0 - (((0 - num) * Pow10(digits)) \div den)

\* toFixed(value, digits) for value = num / den: the value rounded to
\* `digits` decimals, returned as an integer number of 10^-digits.
toFixed(num, den, digits) == roundDiv(num * Pow10(digits), den)

\* ------------------------------------------------------------- the exec callback

\* (stdout || stderr): an empty string is falsy.
chooseOutput(stdout, stderr) == IF Len(stdout) # 0 THEN stdout ELSE stderr

\* Array.prototype.map(s => s.trim()).
trimAll(ss) == array([k \in 1..Len(ss) |-> trim(ss[k])])

\* The non-blank lines, trimmed, each split on ':' into trimmed columns.
parseLines(text) ==
    LET kept == filterNonEmpty(trimAll(split(text, "\n")))
    IN array([k \in 1..Len(kept) |-> trimAll(split(kept[k], ":"))])

\* response.split(' ').map(ping => parseFloat(ping) || timeout), in units of
\* 10^-Prec ms.
parseTimes(response, timeout) ==
    LET pings == split(response, " ")
    IN array([i \in 1..Len(pings) |-> orElse(parseFloat(pings[i]), timeout * Scale)])

\* The filter with <= for <.
countReceivedInclusive(times, timeout) ==
    Cardinality({i \in 1..Len(times) : times[i] <= timeout * Scale})

\* times.filter(ping => ping < timeout).length
countReceived(times, timeout) ==
    Cardinality({i \in 1..Len(times) : times[i] < timeout * Scale})

\* The sum of times[lo..hi], computed by halves.
RECURSIVE sumRange(_, _, _)
sumRange(times, lo, hi) ==
    IF lo > hi THEN 0
    ELSE IF lo = hi THEN times[lo]
    ELSE LET mid == (lo + hi) \div 2
         IN sumRange(times, lo, mid) + sumRange(times, mid + 1, hi)

\* times.reduce((a, b) => a + b)
sum(times) == sumRange(times, 1, Len(times))

seqMin(times) ==
    LET vals == {times[i] : i \in 1..Len(times)}
    IN CHOOSE x \in vals : \A y \in vals : x <= y

seqMax(times) ==
    LET vals == {times[i] : i \in 1..Len(times)}
    IN CHOOSE x \in vals : \A y \in vals : y <= x

\* The Result built for one [host, response] pair.  loss is a number of
\* 10^-lossDigits; avg, min, max and times are numbers of 10^-digits ms.
makeResult(host, response, timeout, digits, lossDigits) ==
    LET times == parseTimes(response, timeout)
        received == countReceived(times, timeout)
        n == Len(times)
    IN [target |-> host,
        sent |-> n,
        received |-> received,
        loss |-> toFixed(n - received, n, lossDigits),
        avg |-> toFixed(sum(times), n * Scale, digits),
        min |-> toFixed(seqMin(times), Scale, digits),
        max |-> toFixed(seqMax(times), Scale, digits),
        times |-> array([i \in 1..n |-> toFixed(times[i], Scale, digits)])]

\* A line with no ':' destructures to [host, undefined]; response.split
\* then throws a TypeError out of the callback.
lineThrows(cols) == Len(cols) < 2

\* The callback of exec: the result object, or the TypeError thrown before
\* resolve() is reached.  A later line of a host overwrites an earlier one.
execCallback(stdout, stderr, timeout, digits, lossDigits) ==
    LET lines == parseLines(chooseOutput(stdout, stderr))
        idx == 1..Len(lines)
    IN IF \E k \in idx : lineThrows(lines[k])
       THEN [threw |-> TRUE, result |-> [h \in {} |-> 0]]
       ELSE [threw |-> FALSE,
             result |-> [h \in {lines[k][1] : k \in idx} |->
                LET last == CHOOSE k \in idx :
                                /\ lines[k][1] = h
                                /\ \A j \in idx : lines[j][1] = h => j <= k
                IN makeResult(h, lines[last][2], timeout, digits, lossDigits)]]

\* ------------------------------------------------------------- options

\* An optional field of the options object: <<>> is undefined, <<v>> is v.
\* backoff is carried in tenths (15 is 1.5).
Undefined == <<>>

DefaultBytes == 56
DefaultBackoff == 15
DefaultCount == 1
DefaultInterval == 10
DefaultPeriod == 1000
DefaultRetry == 3
DefaultTimeout == 500
DefaultDigits == 3
DefaultLossDigits == 4
MinBytes == 40
MinLossDigits == 2

\* field ??= value
nullishAssign(field, value) == IF field = Undefined THEN <<value>> ELSE field

\* Lines 52-61: the defaults, written into the caller's object.
applyDefaults(o) ==
    [bytes |-> nullishAssign(o.bytes, DefaultBytes),
     backoff |-> nullishAssign(o.backoff, DefaultBackoff),
     count |-> nullishAssign(o.count, DefaultCount),
     interval |-> nullishAssign(o.interval, DefaultInterval),
     period |-> nullishAssign(o.period, DefaultPeriod),
     retry |-> nullishAssign(o.retry, DefaultRetry),
     random |-> nullishAssign(o.random, TRUE),
     timeout |-> nullishAssign(o.timeout, DefaultTimeout),
     digits |-> nullishAssign(o.digits, DefaultDigits),
     lossDigits |-> nullishAssign(o.lossDigits, DefaultLossDigits)]

\* ------------------------------------------------------------- targets

Addr4 == <<"1", ".", "1", ".", "1", ".", "1">>
Addr4b == <<"8", ".", "8", ".", "8", ".", "8">>
Addr6 == <<"1", ":", "2", ":", ":", "3">>
BadAddr4 == <<"9", "9", "9">>
BadAddr6 == <<":", "z">>

\* The ip-address library on the modelled strings: whether the constructor
\* accepts the string.
validAddress4(value) == value \in {Addr4, Addr4b}

validAddress6(value) == value \in {Addr6}

\* checkIp: whether it throws on value.
checkIpThrows(value) ==
    IF includes(value, ":") THEN ~validAddress6(value) ELSE ~validAddress4(value)

\* The index of the last invalid target, for the first.
lastThrowing(targets) ==
    IF \E k \in 1..Len(targets) : checkIpThrows(targets[k])
    THEN CHOOSE k \in 1..Len(targets) :
            /\ checkIpThrows(targets[k])
            /\ \A j \in (k + 1)..Len(targets) : ~checkIpThrows(targets[j])
    ELSE 0

\* targets.forEach(target => checkIp(target)): the index of the target whose
\* check throws (the first invalid one), 0 when none does.
firstThrowing(targets) ==
    IF \E k \in 1..Len(targets) : checkIpThrows(targets[k])
    THEN CHOOSE k \in 1..Len(targets) :
            /\ checkIpThrows(targets[k])
            /\ \A j \in 1..(k - 1) : ~checkIpThrows(targets[j])
    ELSE 0

\* ------------------------------------------------------------- validation

NoError == [kind |-> "none", value |-> <<>>]

Error(kind, value) == [kind |-> kind, value |-> value]

bytesInvalid(bytes) == bytes < MinBytes

\* The count check with < for <=.
countInvalidBelowZero(count) == count < 0

countInvalid(count) == count <= 0

lossDigitsInvalid(lossDigits) == lossDigits < MinLossDigits

\* if (options.backoff < 0) options.backoff = 0
clampBackoff(v) == IF v < 0 THEN 0 ELSE v

\* A clamp that also steps a positive value, in place.
clampStepping(v) == IF v <= 0 THEN 0 ELSE v + 1

\* if (options.x <= 0) options.x = 0
clamp(v) == IF v <= 0 THEN 0 ELSE v

\* Lines 52-89, run to the first throw: the error thrown (or none) and the
\* options object as the run leaves it.
validate(o, targets) ==
    LET o1 == applyDefaults(o)
        bad == firstThrowing(targets)
        o2 == [o1 EXCEPT !.backoff = <<clampBackoff(o1.backoff[1])>>]
        o3 == [o2 EXCEPT !.interval = <<clamp(o2.interval[1])>>,
                         !.period = <<clamp(o2.period[1])>>,
                         !.retry = <<clamp(o2.retry[1])>>,
                         !.timeout = <<clamp(o2.timeout[1])>>,
                         !.digits = <<clamp(o2.digits[1])>>]
    IN IF bad # 0
       THEN [error |-> Error("InvalidTarget", targets[bad]), options |-> o1]
       ELSE IF bytesInvalid(o1.bytes[1])
       THEN [error |-> Error("Bytes must be at least 40 bytes", <<>>), options |-> o1]
       ELSE IF countInvalid(o2.count[1])
       THEN [error |-> Error("Count must be >= 1", <<>>), options |-> o2]
       ELSE IF lossDigitsInvalid(o3.lossDigits[1])
       THEN [error |-> Error("lossDigits must be at least 2", <<>>), options |-> o3]
       ELSE [error |-> NoError, options |-> o3]

\* Lines 97-111 and 116: the command handed to exec.
buildCommand(o, targets) ==
    <<<<"fping">>, <<"-A">>, <<"-q">>,
      <<"-b", o.bytes[1]>>, <<"-B", o.backoff[1]>>, <<"-C", o.count[1]>>,
      <<"-i", o.interval[1]>>, <<"-p", o.period[1]>>, <<"-r", o.retry[1]>>,
      <<"-t", o.timeout[1]>>>>
    \o (IF o.random[1] THEN <<"-R">> ELSE <<>>)
    \o targets

\* Line 113: const { timeout, digits, lossDigits } = options
destructure(o) ==
    [timeout |-> o.timeout[1], digits |-> o.digits[1], lossDigits |-> o.lossDigits[1]]

\* ------------------------------------------------------------- the tool's output

\* What the tool printed, line by line, as the tool knows it: a sample line
\* of a host with its tokens, a blank line, or a line of text with no ':'.
TokFast == [text |-> <<"1", ".", "7">>, numeric |-> TRUE, tenths |-> 17]
TokOne == [text |-> <<"1">>, numeric |-> TRUE, tenths |-> 10]
TokZero == [text |-> <<"0", ".", "0">>, numeric |-> TRUE, tenths |-> 0]
TokNeg == [text |-> <<"-", "0", ".", "5">>, numeric |-> TRUE, tenths |-> 0 - 5]
TokLost == [text |-> <<"-">>, numeric |-> FALSE, tenths |-> 0]

ShortTokens == {TokFast, TokZero, TokLost}

SampleLine(host, tokens) == [kind |-> "sample", host |-> host, tokens |-> tokens]
BlankLine == [kind |-> "blank", host |-> <<>>, tokens |-> <<>>]
GarbageLine == [kind |-> "garbage", host |-> <<>>, tokens |-> <<>>]

GarbageText == <<"I", "C", "M", "P", " ", "e", "r", "r">>

\* One line as the tool writes it: "<host> : <token> <token> ...".
renderLine(line) ==
    IF line.kind = "blank" THEN <<>>
    ELSE IF line.kind = "garbage" THEN GarbageText
    ELSE line.host \o <<" ", ":", " ">>
         \o join([i \in 1..Len(line.tokens) |-> line.tokens[i].text], <<" ">>)

RECURSIVE render(_)
render(lines) ==
    IF lines = <<>> THEN <<>>
    ELSE renderLine(Head(lines)) \o <<"\n">> \o render(Tail(lines))

\* Every list of up to MaxTokens short tokens, and lists with a negative
\* latency.
TokenLists ==
    UNION {[1..n -> ShortTokens] : n \in 0..MaxTokens}
    \cup {<<TokNeg>>, <<TokFast, TokNeg>>, <<TokNeg, TokLost, TokNeg>>}

\* n tokens, the first `lost` of them unanswered.
longList(n, lost) == [i \in 1..n |-> IF i <= lost THEN TokLost ELSE TokOne]

LongLists ==
    {longList(n, lost) : n \in (LongSent - 2)..LongSent, lost \in {0, 1}}
    \cup {longList(n, n - got) : n \in (LongSent - 2)..LongSent, got \in {0, 1}}

Trailers == {BlankLine, GarbageLine, SampleLine(Addr4b, <<TokFast>>)}

\* The outputs of the aggregation runs: one line of one of the targets, alone
\* or with one more line after it or a blank line before it; and the long
\* lines, alone.
RichPrinted(hosts) ==
    LET main == {SampleLine(h, t) : h \in hosts, t \in TokenLists}
    IN {<<l>> : l \in main}
       \cup {<<l, t>> : l \in main, t \in Trailers}
       \cup {<<BlankLine, l>> : l \in main}
       \cup {<<SampleLine(h, t)>> : h \in hosts, t \in LongLists}

\* The outputs of the protocol runs.
SmallPrinted(hosts) ==
    {<<>>}
    \cup {<<SampleLine(h, <<TokFast, TokLost>>)>> : h \in hosts}
    \cup {<<GarbageLine, SampleLine(h, <<TokFast>>)>> : h \in hosts}

\* ------------------------------------------------------------- the state

Invocations == {1, 2}

VARIABLES
    original,   \* the options object as the caller made it
    options,    \* the options object both invocations were passed
    pc,         \* where each invocation is
    targets,    \* each invocation's targets argument
    given,      \* the options object as each invocation found it
    error,      \* the error each invocation rejected with
    lookup,     \* what which('fping') returned to each invocation
    command,    \* the command each invocation handed to exec
    captured,   \* each invocation's { timeout, digits, lossDigits }
    spawned,    \* whether each invocation called exec
    exited,     \* whether each invocation's subprocess has ended
    printed,    \* what each invocation's subprocess printed
    stdout,     \* each subprocess's captured standard output
    stderr,     \* each subprocess's captured standard error
    result      \* what each invocation resolved with

vars == <<original, options, pc, targets, given, error, lookup, command,
          captured, spawned, exited, printed, stdout, stderr, result>>

NoOptions ==
    [bytes |-> Undefined, backoff |-> Undefined, count |-> Undefined,
     interval |-> Undefined, period |-> Undefined, retry |-> Undefined,
     random |-> Undefined, timeout |-> Undefined, digits |-> Undefined,
     lossDigits |-> Undefined]

NoCapture == [timeout |-> 0, digits |-> 0, lossDigits |-> 0]

NoResult == [h \in {} |-> 0]

\* The soft options (those clamped, and random), set together.
SoftProfiles ==
    {[backoff |-> Undefined, interval |-> Undefined, period |-> Undefined,
      retry |-> Undefined, random |-> Undefined, timeout |-> Undefined,
      digits |-> Undefined],
     [backoff |-> <<0 - 5>>, interval |-> <<0 - 1>>, period |-> <<0 - 7>>,
      retry |-> <<0 - 2>>, random |-> <<FALSE>>, timeout |-> <<0 - 1>>,
      digits |-> <<0 - 3>>],
     [backoff |-> <<0>>, interval |-> <<0>>, period |-> <<0>>,
      retry |-> <<0>>, random |-> <<TRUE>>, timeout |-> <<0>>,
      digits |-> <<0>>],
     [backoff |-> <<20>>, interval |-> <<5>>, period |-> <<7>>,
      retry |-> <<1>>, random |-> <<FALSE>>, timeout |-> <<2>>,
      digits |-> <<1>>]}

OptionObjects ==
    {[bytes |-> b, backoff |-> s.backoff, count |-> c, interval |-> s.interval,
      period |-> s.period, retry |-> s.retry, random |-> s.random,
      timeout |-> s.timeout, digits |-> s.digits, lossDigits |-> l] :
        b \in {Undefined, <<39>>, <<40>>},
        c \in {Undefined, <<0>>, <<2>>},
        l \in {Undefined, <<1>>, <<2>>},
        s \in SoftProfiles}

TargetLists ==
    {<<Addr4>>, <<Addr4, Addr6>>,
     <<BadAddr6, Addr4, BadAddr4>>, <<Addr4, BadAddr4, BadAddr6>>}

Idle ==
    /\ pc = [i \in Invocations |-> "idle"]
    /\ targets = [i \in Invocations |-> <<>>]
    /\ given = [i \in Invocations |-> NoOptions]
    /\ error = [i \in Invocations |-> NoError]
    /\ lookup = [i \in Invocations |-> "none"]
    /\ command = [i \in Invocations |-> <<>>]
    /\ captured = [i \in Invocations |-> NoCapture]
    /\ spawned = [i \in Invocations |-> FALSE]
    /\ exited = [i \in Invocations |-> FALSE]
    /\ printed = [i \in Invocations |-> <<>>]
    /\ stdout = [i \in Invocations |-> <<>>]
    /\ stderr = [i \in Invocations |-> <<>>]
    /\ result = [i \in Invocations |-> NoResult]

Init ==
    /\ options \in OptionObjects
    /\ original = options
    /\ Idle

\* fping(targets, options) up to its await (lines 52-91): the defaults, the
\* checks and the clamps, all written into the shared object.
Call(i) ==
    /\ pc[i] = "idle"
    /\ \E tg \in TargetLists :
        LET v == validate(options, tg)
        IN /\ targets' = [targets EXCEPT ![i] = tg]
           /\ given' = [given EXCEPT ![i] = options]
           /\ options' = v.options
           /\ error' = [error EXCEPT ![i] = v.error]
           /\ pc' = [pc EXCEPT ![i] =
                        IF v.error = NoError THEN "awaitWhich" ELSE "rejected"]
    /\ UNCHANGED <<original, lookup, command, captured, spawned, exited,
                   printed, stdout, stderr, result>>

\* The await of which('fping') resumes (lines 91-116): without a binary the
\* call rejects, with one the command is built from the options object as it
\* is now, and exec is called.
WhichReturns(i) ==
    /\ pc[i] = "awaitWhich"
    /\ \E found \in BOOLEAN :
        IF found
        THEN /\ lookup' = [lookup EXCEPT ![i] = "found"]
             /\ command' = [command EXCEPT ![i] = buildCommand(options, targets[i])]
             /\ captured' = [captured EXCEPT ![i] = destructure(options)]
             /\ spawned' = [spawned EXCEPT ![i] = TRUE]
             /\ pc' = [pc EXCEPT ![i] = "running"]
             /\ UNCHANGED error
        ELSE /\ lookup' = [lookup EXCEPT ![i] = "missing"]
             /\ error' = [error EXCEPT ![i] =
                            Error("fping could not be found, is it installed?", <<>>)]
             /\ pc' = [pc EXCEPT ![i] = "rejected"]
             /\ UNCHANGED <<command, captured, spawned>>
    /\ UNCHANGED <<original, options, targets, given, exited, printed, stdout,
                   stderr, result>>

\* The subprocess ends, having printed p on one of its two streams.
Exit(i, p, onStdout) ==
    /\ printed' = [printed EXCEPT ![i] = p]
    /\ stdout' = [stdout EXCEPT ![i] = IF onStdout THEN render(p) ELSE <<>>]
    /\ stderr' = [stderr EXCEPT ![i] = IF onStdout THEN <<>> ELSE render(p)]
    /\ exited' = [exited EXCEPT ![i] = TRUE]
    /\ pc' = [pc EXCEPT ![i] = "exited"]
    /\ UNCHANGED <<original, options, targets, given, error, lookup, command,
                   captured, spawned, result>>

hostsOf(tg) == {tg[k] : k \in 1..Len(tg)}

ProcessExit(i) ==
    /\ pc[i] = "running"
    /\ \E p \in SmallPrinted(hostsOf(targets[i])), onStdout \in BOOLEAN :
        Exit(i, p, onStdout)

\* exec's callback (lines 117-148): resolve(result), unless a line throws.
ExecCallback(i) ==
    /\ pc[i] = "exited"
    /\ LET r == execCallback(stdout[i], stderr[i], captured[i].timeout,
                             captured[i].digits, captured[i].lossDigits)
       IN IF r.threw
          THEN /\ pc' = [pc EXCEPT ![i] = "crashed"]
               /\ UNCHANGED result
          ELSE /\ pc' = [pc EXCEPT ![i] = "resolved"]
               /\ result' = [result EXCEPT ![i] = r.result]
    /\ UNCHANGED <<original, options, targets, given, error, lookup, command,
                   captured, spawned, exited, printed, stdout, stderr>>

Next ==
    \E i \in Invocations :
        \/ Call(i)
        \/ WhichReturns(i)
        \/ ProcessExit(i)
        \/ ExecCallback(i)

Spec == Init /\ [][Next]_vars

\* ------------------------------------------------------------- aggregation runs

\* One invocation whose subprocess is running: the states validation and the
\* tool lookup leave, for these options and targets.
AggOptionObjects ==
    {[NoOptions EXCEPT !.timeout = <<t>>, !.digits = <<d>>, !.lossDigits = <<l>>] :
        t \in {0, 2}, d \in {0, 1}, l \in {2, 3}}

AggTargets == <<Addr4, Addr6>>

InitAgg ==
    \E o \in AggOptionObjects :
        LET v == validate(o, AggTargets)
        IN /\ v.error = NoError
           /\ original = o
           /\ options = v.options
           /\ pc = [i \in Invocations |-> IF i = 1 THEN "running" ELSE "idle"]
           /\ targets = [i \in Invocations |-> IF i = 1 THEN AggTargets ELSE <<>>]
           /\ given = [i \in Invocations |-> IF i = 1 THEN o ELSE NoOptions]
           /\ error = [i \in Invocations |-> NoError]
           /\ lookup = [i \in Invocations |-> IF i = 1 THEN "found" ELSE "none"]
           /\ command = [i \in Invocations |->
                            IF i = 1 THEN buildCommand(v.options, AggTargets) ELSE <<>>]
           /\ captured = [i \in Invocations |->
                            IF i = 1 THEN destructure(v.options) ELSE NoCapture]
           /\ spawned = [i \in Invocations |-> i = 1]
           /\ exited = [i \in Invocations |-> FALSE]
           /\ printed = [i \in Invocations |-> <<>>]
           /\ stdout = [i \in Invocations |-> <<>>]
           /\ stderr = [i \in Invocations |-> <<>>]
           /\ result = [i \in Invocations |-> NoResult]

ProcessExitAgg ==
    /\ pc[1] = "running"
    /\ \E p \in RichPrinted(hostsOf(targets[1])), onStdout \in BOOLEAN :
        Exit(1, p, onStdout)

NextAgg == ProcessExitAgg \/ ExecCallback(1)

SpecAgg == InitAgg /\ [][NextAgg]_vars

\* ------------------------------------------------------------- properties

Resolved(i) == pc[i] = "resolved"

\* The sample lines among those invocation i's subprocess printed.
sampleLines(i) ==
    {printed[i][k] : k \in {j \in 1..Len(printed[i]) : printed[i][j].kind = "sample"}}

colonFree(host) == ~includes(host, ":")

\* The number a numeric token denotes, in units of 10^-Prec ms.
tokenValue(tok) == tok.tenths * (Scale \div 10)

\* The data part of a sample line as the tool wrote it.
dataText(line) ==
    join([j \in 1..Len(line.tokens) |-> line.tokens[j].text], <<" ">>)

\* The timeout in the unit of a Result's times (10^-digits ms).
sentinel(i) == captured[i].timeout * Pow10(captured[i].digits)

\* The samples of the line the Result of host was built from, before they
\* are rounded to digits (units of 10^-Prec ms).
samples(i, host) ==
    LET lines == parseLines(chooseOutput(stdout[i], stderr[i]))
        last == CHOOSE k \in 1..Len(lines) :
                    /\ lines[k][1] = host
                    /\ \A j \in 1..Len(lines) : lines[j][1] = host => j <= k
    IN parseTimes(lines[last][2], captured[i].timeout)

below(values, limit) == Cardinality({j \in 1..Len(values) : values[j] < limit})

\* C1: for every printed sample line with N >= 1 tokens, the Result of the
\* line's host has sent = N and N times, and every unanswered token's
\* position holds the timeout value.
C1_OneEntryPerToken ==
    \A i \in Invocations : Resolved(i) =>
        \A line \in sampleLines(i) :
            LET n == Len(line.tokens)
            IN n >= 1 =>
                /\ line.host \in DOMAIN result[i]
                /\ result[i][line.host].sent = n
                /\ Len(result[i][line.host].times) = n
                /\ \A j \in 1..n :
                        ~line.tokens[j].numeric =>
                            result[i][line.host].times[j] = sentinel(i)

\* C1, on the lines whose host holds no ':' (IPv4 targets): the same
\* statement, which the code satisfies.
C1_OnColonFreeHosts ==
    \A i \in Invocations : Resolved(i) =>
        \A line \in sampleLines(i) :
            LET n == Len(line.tokens)
            IN (n >= 1 /\ colonFree(line.host)) =>
                /\ line.host \in DOMAIN result[i]
                /\ result[i][line.host].sent = n
                /\ Len(result[i][line.host].times) = n
                /\ \A j \in 1..n :
                        ~line.tokens[j].numeric =>
                            result[i][line.host].times[j] = sentinel(i)

\* C2 as stated: in every Result, received <= sent and received is the
\* number of entries of the Result's times that are below timeout.
C2_ReceivedCountsTimes ==
    \A i \in Invocations : Resolved(i) =>
        \A h \in DOMAIN result[i] :
            /\ result[i][h].received <= result[i][h].sent
            /\ result[i][h].received = below(result[i][h].times, sentinel(i))

\* C2 amended: in every Result, received <= sent and received is the number
\* of the line's samples below timeout before they are rounded to digits;
\* for an integer timeout the rounded times hold at most that many entries
\* below timeout, and exactly that many when digits keeps every decimal of
\* the samples.
C2_ReceivedCountsSamples ==
    \A i \in Invocations : Resolved(i) =>
        \A h \in DOMAIN result[i] :
            LET r == result[i][h]
            IN /\ r.received <= r.sent
               /\ r.received = below(samples(i, h), captured[i].timeout * Scale)
               /\ below(r.times, sentinel(i)) <= r.received
               /\ captured[i].digits >= Prec =>
                    below(r.times, sentinel(i)) = r.received

\* C2's case: a Result in which rounding moved an answered sample up to the
\* timeout.
C2_Witness ==
    \E i \in Invocations : Resolved(i) /\
        \E h \in DOMAIN result[i] :
            /\ result[i][h].received >= 1
            /\ below(result[i][h].times, sentinel(i)) < result[i][h].received

\* C3: on a line of a host without ':', every token that is a decimal number
\* (zero and negative ones too) is the entry of times at its position
\* (rounded to digits).
C3_NumbersAreKept ==
    \A i \in Invocations : Resolved(i) =>
        \A line \in sampleLines(i) :
            (colonFree(line.host) /\ line.host \in DOMAIN result[i]
             /\ Len(result[i][line.host].times) = Len(line.tokens)) =>
                \A j \in 1..Len(line.tokens) :
                    line.tokens[j].numeric =>
                        result[i][line.host].times[j] =
                            toFixed(tokenValue(line.tokens[j]), Scale, captured[i].digits)

\* C4: once the subprocess has ended the call resolves whatever it printed,
\* and every printed sample line (of a host without ':') has its Result.
C4_ResolvesOnAnyOutput ==
    \A i \in Invocations :
        /\ pc[i] # "crashed"
        /\ Resolved(i) =>
            \A line \in sampleLines(i) :
                colonFree(line.host) => line.host \in DOMAIN result[i]

\* C6: every printed sample line of an accepted target, IPv4 or IPv6, has an
\* entry keyed by and naming that target, built from that line's tokens.
C6_EveryTargetLineHasItsResult ==
    \A i \in Invocations : Resolved(i) =>
        \A line \in sampleLines(i) :
            line.host \in hostsOf(targets[i]) =>
                /\ line.host \in DOMAIN result[i]
                /\ result[i][line.host] =
                        makeResult(line.host, dataText(line), captured[i].timeout,
                                   captured[i].digits, captured[i].lossDigits)

\* C7: a printed line of a host (without ':') with no token after its ':'
\* gives a Result with sent = 0 and no times.
C7_EmptyDataIsZeroSamples ==
    \A i \in Invocations : Resolved(i) =>
        \A line \in sampleLines(i) :
            (colonFree(line.host) /\ line.tokens = <<>>) =>
                /\ line.host \in DOMAIN result[i]
                /\ result[i][line.host].sent = 0
                /\ result[i][line.host].times = <<>>

\* loss is within half a unit of 10^-lossDigits of 1 - received/sent, and in
\* [0, 1].
lossIsRounded(r, lossDigits) ==
    LET exact == (r.sent - r.received) * Pow10(lossDigits)
        diff == r.loss * r.sent - exact
    IN /\ 0 <= r.loss /\ r.loss <= Pow10(lossDigits)
       /\ 2 * diff <= r.sent /\ 2 * (0 - diff) <= r.sent

allBelow(values, limit) == below(values, limit) = Len(values)

noneBelow(values, limit) == below(values, limit) = 0

\* C8 as stated: loss is 1 - received/sent rounded to lossDigits, in [0, 1],
\* 0 exactly when every sample is below timeout and 1 exactly when none is.
C8_LossExtremesExactly ==
    \A i \in Invocations : Resolved(i) =>
        \A h \in DOMAIN result[i] :
            LET r == result[i][h]
                one == Pow10(captured[i].lossDigits)
                s == samples(i, h)
                limit == captured[i].timeout * Scale
            IN r.sent >= 1 =>
                /\ lossIsRounded(r, captured[i].lossDigits)
                /\ r.loss = 0 <=> allBelow(s, limit)
                /\ r.loss = one <=> noneBelow(s, limit)

\* C8 amended: loss is 1 - received/sent rounded to lossDigits, in [0, 1]; it
\* is 0 when every sample is below timeout and 1 when none is, and the
\* converses hold for sent < 2 * 10^lossDigits.
C8_LossExtremes ==
    \A i \in Invocations : Resolved(i) =>
        \A h \in DOMAIN result[i] :
            LET r == result[i][h]
                one == Pow10(captured[i].lossDigits)
                s == samples(i, h)
                limit == captured[i].timeout * Scale
            IN r.sent >= 1 =>
                /\ lossIsRounded(r, captured[i].lossDigits)
                /\ allBelow(s, limit) => r.loss = 0
                /\ noneBelow(s, limit) => r.loss = one
                /\ r.sent < 2 * one =>
                    /\ r.loss = 0 => allBelow(s, limit)
                    /\ r.loss = one => noneBelow(s, limit)

\* C8's case: a Result with a lost probe whose loss still rounds to 0.
C8_Witness ==
    \E i \in Invocations : Resolved(i) /\
        \E h \in DOMAIN result[i] :
            /\ result[i][h].sent >= 2 * Pow10(captured[i].lossDigits)
            /\ result[i][h].received < result[i][h].sent
            /\ result[i][h].loss = 0

\* The options as invocation i read them once the defaults were in.
effective(i) == applyDefaults(given[i])

invalidTargets(i) == {k \in 1..Len(targets[i]) : checkIpThrows(targets[i][k])}

hardViolation(i) ==
    \/ invalidTargets(i) # {}
    \/ effective(i).bytes[1] < 40
    \/ effective(i).count[1] <= 0
    \/ effective(i).lossDigits[1] < 2

\* C5: a call with an invalid target, bytes < 40, count <= 0 or
\* lossDigits < 2, or whose tool lookup found nothing, has rejected with an
\* error, never called exec and holds no result.
C5_InvalidCallsNeverSpawn ==
    \A i \in Invocations :
        (pc[i] # "idle" /\ (hardViolation(i) \/ lookup[i] = "missing")) =>
            /\ pc[i] = "rejected"
            /\ error[i] # NoError
            /\ ~spawned[i]
            /\ command[i] = <<>>
            /\ DOMAIN result[i] = {}

\* C5's case: a call rejected for count = 0 alone, with nothing spawned.
C5_Witness ==
    \E i \in Invocations :
        /\ pc[i] = "rejected"
        /\ invalidTargets(i) = {}
        /\ effective(i).bytes[1] >= 40
        /\ effective(i).count[1] = 0
        /\ ~spawned[i]

\* The error the first failing check of the documented order raises.
firstFailure(i) ==
    LET bad == invalidTargets(i)
    IN IF bad # {}
       THEN Error("InvalidTarget",
                  targets[i][CHOOSE k \in bad : \A j \in bad : k <= j])
       ELSE IF effective(i).bytes[1] < 40
       THEN Error("Bytes must be at least 40 bytes", <<>>)
       ELSE IF effective(i).count[1] <= 0
       THEN Error("Count must be >= 1", <<>>)
       ELSE IF effective(i).lossDigits[1] < 2
       THEN Error("lossDigits must be at least 2", <<>>)
       ELSE NoError

atLeastZero(v) == IF v < 0 THEN 0 ELSE v

\* C9: the error of a rejected call is that of the first failing check in
\* the order targets (in input order), bytes, count, lossDigits, tool lookup;
\* backoff, interval, period, retry, timeout and digits raise nothing and
\* reach the command clamped to 0.
C9_FirstFailingCheckWins ==
    \A i \in Invocations : pc[i] # "idle" =>
        /\ firstFailure(i) # NoError =>
            (pc[i] = "rejected" /\ error[i] = firstFailure(i))
        /\ (firstFailure(i) = NoError /\ pc[i] = "rejected") =>
            /\ lookup[i] = "missing"
            /\ error[i] = Error("fping could not be found, is it installed?", <<>>)
        /\ spawned[i] =>
            /\ command[i][5] = <<"-B", atLeastZero(effective(i).backoff[1])>>
            /\ command[i][7] = <<"-i", atLeastZero(effective(i).interval[1])>>
            /\ command[i][8] = <<"-p", atLeastZero(effective(i).period[1])>>
            /\ command[i][9] = <<"-r", atLeastZero(effective(i).retry[1])>>
            /\ command[i][10] = <<"-t", atLeastZero(effective(i).timeout[1])>>
            /\ captured[i].timeout = atLeastZero(effective(i).timeout[1])
            /\ captured[i].digits = atLeastZero(effective(i).digits[1])

\* C9's case: every check fails at once and the first invalid target, which
\* is not the last one, is the error.
C9_Witness ==
    \E i \in Invocations :
        /\ pc[i] = "rejected"
        /\ targets[i] = <<BadAddr6, Addr4, BadAddr4>>
        /\ error[i] = Error("InvalidTarget", BadAddr6)
        /\ effective(i).bytes[1] < 40
        /\ effective(i).count[1] <= 0
        /\ effective(i).lossDigits[1] < 2

\* C10: each of two invocations passed one options object builds the command
\* and captures the timeout, digits and lossDigits it would have alone on
\* the object as the caller made it, raises the error it would have alone,
\* and resolves only once its own subprocess has ended, with the result of
\* its own output.
C10_SharedOptionsDoNotInterfere ==
    \A i \in Invocations :
        LET alone == validate(original, targets[i])
        IN /\ (pc[i] # "idle" /\ alone.error # NoError) => error[i] = alone.error
           /\ spawned[i] =>
                /\ alone.error = NoError
                /\ command[i] = buildCommand(alone.options, targets[i])
                /\ captured[i] = destructure(alone.options)
           /\ Resolved(i) =>
                /\ exited[i]
                /\ result[i] = execCallback(stdout[i], stderr[i],
                                            alone.options.timeout[1],
                                            alone.options.digits[1],
                                            alone.options.lossDigits[1]).result

\* C10's case: the second invocation ran from its call to its result while
\* the first was suspended at its await, on an object the calls rewrote.
C10_Witness ==
    /\ pc[1] = "awaitWhich"
    /\ Resolved(2)
    /\ original.timeout = <<0 - 1>>
    /\ options # original

=============================================================================
